---- MODULE Spec2Model ----
(***************************************************************************)
(* Model of transitfeed/pathway.py: construction, normalisation and the    *)
(* two-phase validation of a Pathway record.                               *)
(*                                                                         *)
(* Python values are records [t, i, s]: t is the type tag, i the integer   *)
(* value (0 unless t = "int"), s the characters of a string (<<>> unless   *)
(* t = "str").  Strings are sequences of one-character strings so that     *)
(* parsing and blank-testing are computed, not assumed.                    *)
(***************************************************************************)
EXTENDS Integers, Sequences, FiniteSets, TLC

VARIABLES
  stops,     \* schedule.stops: stop id -> position of the stop (metres on a line)
  pc,        \* "start" before Pathway(...) is called, "constructed" after
  self,      \* the Pathway object's attributes
  raw,       \* the arguments the constructor was called with
  problems,  \* the problem reporter's ordered log
  indexed,   \* the ids schedule.stops has been subscripted with
  last,      \* the most recent validation call: which, its return value, log mark
  calls      \* number of validation calls made so far

vars == <<stops, pc, self, raw, problems, indexed, last, calls>>

\* ------------------------------------------------------------------ bounds
MaxCalls == 1

\* ------------------------------------------------------------ Python values
PyNone == [t |-> "None", i |-> 0, s |-> <<>>]
PyInt(n) == [t |-> "int", i |-> n, s |-> <<>>]
PyStr(cs) == [t |-> "str", i |-> 0, s |-> cs]

Digits == <<"0", "1", "2", "3", "4", "5", "6", "7", "8", "9">>

IsDigit(c) == \E k \in 1..10 : Digits[k] = c

DigitVal(c) == (CHOOSE k \in 1..10 : Digits[k] = c) - 1

RECURSIVE ParseDigits(_)
ParseDigits(cs) ==
  IF cs = <<>> THEN 0
  ELSE 10 * ParseDigits(SubSeq(cs, 1, Len(cs) - 1)) + DigitVal(cs[Len(cs)])

\* util.NonNegIntStringToInt: [ok, val]; ok = FALSE stands for the TypeError
\* (argument is not a string) or ValueError (not a non-negative integer
\* literal) the constructor catches.
NonNegIntStringToInt(v) ==
  IF v.t = "str" /\ v.s # <<>> /\ \A k \in 1..Len(v.s) : IsDigit(v.s[k])
  THEN [ok |-> TRUE, val |-> PyInt(ParseDigits(v.s))]
  ELSE [ok |-> FALSE, val |-> v]

\* util.IsEmpty: None, or a string that is empty once whitespace is stripped
IsEmpty(v) ==
  \/ v.t = "None"
  \/ v.t = "str" /\ \A k \in 1..Len(v.s) : v.s[k] = " "

\* ------------------------------------------------------------- constructor
FieldNames == {"pathway_id", "from_stop_id", "to_stop_id", "pathway_mode",
               "is_bidirectional", "traversal_time"}

\* getattr(self, name, None) on the attribute dictionary d
GetAttr(d, name) == IF name \in DOMAIN d THEN d[name] ELSE PyNone

\* faulty variant: only a missing pathway_mode is defaulted, "" is not
NormalizePathwayModeNoneOnly(d) ==
  IF GetAttr(d, "pathway_mode") = PyNone
  THEN PyInt(2)
  ELSE NonNegIntStringToInt(d["pathway_mode"]).val

\* lines 42-49: default or parse pathway_mode
NormalizePathwayMode(d) ==
  IF GetAttr(d, "pathway_mode") \in {PyStr(<<>>), PyNone}
  THEN PyInt(2)
  ELSE NonNegIntStringToInt(d["pathway_mode"]).val

\* lines 51-57: parse traversal_time when the attribute exists
NormalizeTraversalTime(d) ==
  IF "traversal_time" \in DOMAIN d
  THEN NonNegIntStringToInt(d["traversal_time"]).val
  ELSE PyNone

\* schedule.AddPathwayObject(pathway): the registry attaches itself
AddPathwayObject(obj) == [obj EXCEPT !._schedule = "schedule"]

\* Pathway.__init__; field_dict is a function from a set of field names to
\* values, the empty function standing for both None and {} (both falsy).
Pathway__init__(schedule, pathway_id, from_stop_id, to_stop_id, pathway_mode, is_bidirectional, traversal_time, field_dict) ==
  LET d == IF DOMAIN field_dict # {}
           THEN field_dict
           ELSE [n \in FieldNames |->
                   CASE n = "pathway_id" -> pathway_id
                     [] n = "from_stop_id" -> from_stop_id
                     [] n = "to_stop_id" -> to_stop_id
                     [] n = "pathway_mode" -> pathway_mode
                     [] n = "traversal_time" -> traversal_time
                     [] n = "is_bidirectional" -> is_bidirectional]
      obj == [_schedule |-> "None",
              pathway_id |-> GetAttr(d, "pathway_id"),
              from_stop_id |-> GetAttr(d, "from_stop_id"),
              to_stop_id |-> GetAttr(d, "to_stop_id"),
              is_bidirectional |-> GetAttr(d, "is_bidirectional"),
              pathway_mode |-> NormalizePathwayMode(d),
              traversal_time |-> NormalizeTraversalTime(d)]
  IN IF schedule # "None" THEN AddPathwayObject(obj) ELSE obj

\* ------------------------------------------------------- problem reporter
TYPE_ERROR == "ERROR"
TYPE_WARNING == "WARNING"

Report(kind, field, value, type, reason, from, to, distance) ==
  [kind |-> kind, field |-> field, value |-> value, type |-> type,
   reason |-> reason, from_stop_id |-> from, to_stop_id |-> to,
   distance |-> distance]

MissingValue(field) ==
  Report("MissingValue", field, PyNone, TYPE_ERROR, "", PyNone, PyNone, 0)

InvalidValue(field, value, type, reason) ==
  Report("InvalidValue", field, value, type, reason, PyNone, PyNone, 0)

MinimumPathwayTimeSetWithInvalidPathwayMode(mode) ==
  Report("MinimumPathwayTimeSetWithInvalidPathwayMode", "pathway_mode", mode,
         TYPE_ERROR, "", PyNone, PyNone, 0)

PathwayDistanceTooBig(from, to, distance, type) ==
  Report("PathwayDistanceTooBig", "", PyNone, type, "", from, to, distance)

PathwayWalkingSpeedTooFast(from, to, transfer_time, distance) ==
  Report("PathwayWalkingSpeedTooFast", "", transfer_time, TYPE_WARNING, "",
         from, to, distance)

\* A call context: the reporter's log, the ids schedule.stops was subscripted
\* with, whether an exception is propagating, the callee's return value and the
\* methods entered so far.
Ctx(log, idx) ==
  [problems |-> log, indexed |-> idx, raised |-> FALSE, ret |-> TRUE,
   entered |-> <<>>]

\* entering a method: the order of calls, kept for the claims about order
Enter(c, name) == [c EXCEPT !.entered = Append(@, name)]

Reported(c, r) == [c EXCEPT !.problems = Append(@, r)]

Return(c, b) == [c EXCEPT !.ret = b]

\* ------------------------------------------------ pre-registration checks
ValidateFromStopIdIsPresentBody(obj, c) ==
  IF IsEmpty(obj.from_stop_id)
  THEN Return(Reported(c, MissingValue("from_stop_id")), FALSE)
  ELSE Return(c, TRUE)

ValidateFromStopIdIsPresent(obj, c) ==
  ValidateFromStopIdIsPresentBody(obj, Enter(c, "ValidateFromStopIdIsPresent"))

ValidateToStopIdIsPresentBody(obj, c) ==
  IF IsEmpty(obj.to_stop_id)
  THEN Return(Reported(c, MissingValue("to_stop_id")), FALSE)
  ELSE Return(c, TRUE)

ValidateToStopIdIsPresent(obj, c) ==
  ValidateToStopIdIsPresentBody(obj, Enter(c, "ValidateToStopIdIsPresent"))

PathwayModeLow == 1
PathwayModeHigh == 7

ValidatePathwayModeBody(obj, c) ==
  IF /\ ~IsEmpty(obj.pathway_mode)
     /\ \/ obj.pathway_mode.t # "int"
        \/ obj.pathway_mode.i \notin PathwayModeLow..PathwayModeHigh
  THEN Return(Reported(c, InvalidValue("pathway_mode", obj.pathway_mode,
                                       TYPE_ERROR, "")), FALSE)
  ELSE Return(c, TRUE)

ValidatePathwayMode(obj, c) ==
  ValidatePathwayModeBody(obj, Enter(c, "ValidatePathwayMode"))

DefaultPathwayMode == 2
VeryLargeTime == 24 * 3600
LargeTime == 3 * 3600

ReasonNegative == "This field cannot contain a negative value."
ReasonVeryLarge ==
  "The value is very large for a transfer time and most likely indicates an error."
ReasonLarge ==
  "The value is large for a transfer time and most likely indicates an error."
ReasonInteger == "If present, this field should contain an integer value."

\* faulty variant: the two upper cutoffs exclude the boundary values
TraversalTimeRangeStrict(obj, c) ==
  LET t == obj.traversal_time
  IN IF t.i < 0
     THEN Reported(c, InvalidValue("traversal_time", t, TYPE_ERROR, ReasonNegative))
     ELSE IF t.i > VeryLargeTime
     THEN Reported(c, InvalidValue("traversal_time", t, TYPE_ERROR, ReasonVeryLarge))
     ELSE IF t.i > LargeTime
     THEN Reported(c, InvalidValue("traversal_time", t, TYPE_WARNING, ReasonLarge))
     ELSE c

\* lines 94-109: the range checks on an integer traversal_time
TraversalTimeRange(obj, c) ==
  LET t == obj.traversal_time
  IN IF t.i < 0
     THEN Reported(c, InvalidValue("traversal_time", t, TYPE_ERROR, ReasonNegative))
     ELSE IF t.i >= VeryLargeTime
     THEN Reported(c, InvalidValue("traversal_time", t, TYPE_ERROR, ReasonVeryLarge))
     ELSE IF t.i >= LargeTime
     THEN Reported(c, InvalidValue("traversal_time", t, TYPE_WARNING, ReasonLarge))
     ELSE c

\* faulty variant: a negative traversal_time makes the check fail
ValidateMinimumPathwayTimeBlocking(obj, c) ==
  IF ~IsEmpty(obj.traversal_time)
  THEN LET c1 == IF obj.pathway_mode # PyInt(DefaultPathwayMode)
                 THEN Reported(c, MinimumPathwayTimeSetWithInvalidPathwayMode(
                                     obj.pathway_mode))
                 ELSE c
       IN IF obj.traversal_time.t = "int"
          THEN Return(TraversalTimeRange(obj, c1), obj.traversal_time.i >= 0)
          ELSE Return(Reported(c1, InvalidValue("traversal_time", obj.traversal_time,
                                                TYPE_ERROR, ReasonInteger)), FALSE)
  ELSE Return(c, TRUE)

\* faulty variant: a non-integer traversal_time is reported but does not fail
ValidateMinimumPathwayTimeNonBlocking(obj, c) ==
  IF ~IsEmpty(obj.traversal_time)
  THEN LET c1 == IF obj.pathway_mode # PyInt(DefaultPathwayMode)
                 THEN Reported(c, MinimumPathwayTimeSetWithInvalidPathwayMode(
                                     obj.pathway_mode))
                 ELSE c
       IN IF obj.traversal_time.t = "int"
          THEN Return(TraversalTimeRange(obj, c1), TRUE)
          ELSE Return(Reported(c1, InvalidValue("traversal_time", obj.traversal_time,
                                                TYPE_ERROR, ReasonInteger)), TRUE)
  ELSE Return(c, TRUE)

ValidateMinimumPathwayTimeBody(obj, c) ==
  IF ~IsEmpty(obj.traversal_time)
  THEN LET c1 == IF obj.pathway_mode # PyInt(DefaultPathwayMode)
                 THEN Reported(c, MinimumPathwayTimeSetWithInvalidPathwayMode(
                                     obj.pathway_mode))
                 ELSE c
       IN IF obj.traversal_time.t = "int"
          THEN Return(TraversalTimeRange(obj, c1), TRUE)
          ELSE Return(Reported(c1, InvalidValue("traversal_time", obj.traversal_time,
                                                TYPE_ERROR, ReasonInteger)), FALSE)
  ELSE Return(c, TRUE)

ValidateMinimumPathwayTime(obj, c) ==
  ValidateMinimumPathwayTimeBody(obj, Enter(c, "ValidateMinimumPathwayTime"))

\* faulty variant: result = result and self.Check(problems), which skips the checks
\* that follow a failure
ValidateBeforeAddShortCircuit(obj, c) ==
  LET c1 == ValidateFromStopIdIsPresent(obj, c)
      c2 == IF c1.ret THEN ValidateToStopIdIsPresent(obj, c1) ELSE c1
      c3 == IF c2.ret THEN ValidatePathwayMode(obj, c2) ELSE c2
      c4 == IF c3.ret THEN ValidateMinimumPathwayTime(obj, c3) ELSE c3
  IN c4

\* result = self.Check(problems) and result: the check is called first, so it
\* runs whatever result holds.
ValidateBeforeAddBody(obj, c) ==
  LET result0 == TRUE
      c1 == ValidateFromStopIdIsPresent(obj, c)
      result1 == c1.ret /\ result0
      c2 == ValidateToStopIdIsPresent(obj, c1)
      result2 == c2.ret /\ result1
      c3 == ValidatePathwayMode(obj, c2)
      result3 == c3.ret /\ result2
      c4 == ValidateMinimumPathwayTime(obj, c3)
      result4 == c4.ret /\ result3
  IN Return(c4, result4)

ValidateBeforeAdd(obj, c) ==
  ValidateBeforeAddBody(obj, Enter(c, "ValidateBeforeAdd"))

\* ----------------------------------------------- post-registration checks
Abs(x) == IF x < 0 THEN -x ELSE x

\* util.ApproximateDistanceBetweenStops, on stops laid out along a line
ApproximateDistanceBetweenStops(from_stop, to_stop) == Abs(from_stop - to_stop)

\* subscripting schedule.stops: a KeyError propagates for an unknown id
Subscript(c, id) ==
  IF c.raised THEN c
  ELSE [c EXCEPT !.indexed = @ \cup {id}, !.raised = id \notin DOMAIN stops]

\* GetPathwayDistance: [c, distance]
GetPathwayDistance(obj, c) ==
  LET c1 == Subscript(c, obj.from_stop_id)
      c2 == Subscript(c1, obj.to_stop_id)
  IN [c |-> c2,
      distance |-> IF c2.raised THEN 0
                   ELSE ApproximateDistanceBetweenStops(stops[obj.from_stop_id],
                                                        stops[obj.to_stop_id])]

ValidateFromStopIdIsValidBody(obj, c) ==
  IF obj.from_stop_id \notin DOMAIN stops
  THEN Return(Reported(c, InvalidValue("from_stop_id", obj.from_stop_id,
                                       TYPE_ERROR, "")), FALSE)
  ELSE Return(c, TRUE)

ValidateFromStopIdIsValid(obj, c) ==
  ValidateFromStopIdIsValidBody(obj, Enter(c, "ValidateFromStopIdIsValid"))

ValidateToStopIdIsValidBody(obj, c) ==
  IF obj.to_stop_id \notin DOMAIN stops
  THEN Return(Reported(c, InvalidValue("to_stop_id", obj.to_stop_id,
                                       TYPE_ERROR, "")), FALSE)
  ELSE Return(c, TRUE)

ValidateToStopIdIsValid(obj, c) ==
  ValidateToStopIdIsValidBody(obj, Enter(c, "ValidateToStopIdIsValid"))

DistanceError == 10000
DistanceWarning == 2000

\* faulty variant: the error cutoff is 5000 m
ValidatePathwayDistanceError5000(obj, c) ==
  LET g == GetPathwayDistance(obj, c)
  IN IF g.c.raised THEN g.c
     ELSE IF g.distance > 5000
     THEN Reported(g.c, PathwayDistanceTooBig(obj.from_stop_id, obj.to_stop_id,
                                              g.distance, TYPE_ERROR))
     ELSE IF g.distance > DistanceWarning
     THEN Reported(g.c, PathwayDistanceTooBig(obj.from_stop_id, obj.to_stop_id,
                                              g.distance, TYPE_WARNING))
     ELSE g.c

\* faulty variant: the cutoffs include the boundary values
ValidatePathwayDistanceNonStrict(obj, c) ==
  LET g == GetPathwayDistance(obj, c)
  IN IF g.c.raised THEN g.c
     ELSE IF g.distance >= DistanceError
     THEN Reported(g.c, PathwayDistanceTooBig(obj.from_stop_id, obj.to_stop_id,
                                              g.distance, TYPE_ERROR))
     ELSE IF g.distance >= DistanceWarning
     THEN Reported(g.c, PathwayDistanceTooBig(obj.from_stop_id, obj.to_stop_id,
                                              g.distance, TYPE_WARNING))
     ELSE g.c

ValidatePathwayDistanceBody(obj, c) ==
  LET g == GetPathwayDistance(obj, c)
  IN IF g.c.raised THEN g.c
     ELSE IF g.distance > DistanceError
     THEN Reported(g.c, PathwayDistanceTooBig(obj.from_stop_id, obj.to_stop_id,
                                              g.distance, TYPE_ERROR))
     ELSE IF g.distance > DistanceWarning
     THEN Reported(g.c, PathwayDistanceTooBig(obj.from_stop_id, obj.to_stop_id,
                                              g.distance, TYPE_WARNING))
     ELSE g.c

ValidatePathwayDistance(obj, c) ==
  ValidatePathwayDistanceBody(obj, Enter(c, "ValidatePathwayDistance"))

FAST_WALKING_SPEED == 2
GraceSeconds == 120

\* faulty variant: the division truncates to an integer
TooFastIntegerDivision(traversal_time, distance) ==
  traversal_time + GraceSeconds < distance \div FAST_WALKING_SPEED

\* traversal_time + 120 < distance / FAST_WALKING_SPEED, the distance being a
\* float: the division is exact, so the test is stated on the products.
TooFast(traversal_time, distance) ==
  (traversal_time + GraceSeconds) * FAST_WALKING_SPEED < distance

\* A traversal_time that is neither empty nor an integer makes the
\* arithmetic of lines 153-165 raise TypeError before anything is reported.
ValidatePathwayWalkingTimeBody(obj, c) ==
  IF c.raised \/ IsEmpty(obj.traversal_time) THEN c
  ELSE IF obj.traversal_time.t # "int" THEN [c EXCEPT !.raised = TRUE]
  ELSE IF obj.traversal_time.i < 0 THEN c
  ELSE LET g == GetPathwayDistance(obj, c)
       IN IF g.c.raised THEN g.c
          ELSE IF TooFast(obj.traversal_time.i, g.distance)
          THEN Reported(g.c, PathwayWalkingSpeedTooFast(
                               obj.from_stop_id, obj.to_stop_id,
                               obj.traversal_time, g.distance))
          ELSE g.c

ValidatePathwayWalkingTime(obj, c) ==
  ValidatePathwayWalkingTimeBody(obj, Enter(c, "ValidatePathwayWalkingTime"))

\* faulty variant: the geometry checks run whatever the resolvability checks returned
ValidateAfterAddUngated(obj, c) ==
  LET c1 == ValidateFromStopIdIsValid(obj, c)
      c2 == ValidateToStopIdIsValid(obj, c1)
  IN ValidatePathwayWalkingTime(obj, ValidatePathwayDistance(obj, c2))

ValidateAfterAddBody(obj, c) ==
  LET valid0 == TRUE
      c1 == ValidateFromStopIdIsValid(obj, c)
      valid1 == c1.ret /\ valid0
      c2 == ValidateToStopIdIsValid(obj, c1)
      valid2 == c2.ret /\ valid1
  IN IF valid2
     THEN ValidatePathwayWalkingTime(obj, ValidatePathwayDistance(obj, c2))
     ELSE c2

ValidateAfterAdd(obj, c) ==
  ValidateAfterAddBody(obj, Enter(c, "ValidateAfterAdd"))

\* faulty variant: the result of ValidateBeforeAdd is not tested
ValidateIgnoringResult(obj, c) ==
  LET c1 == ValidateBeforeAdd(obj, c)
  IN IF obj._schedule # "None"
     THEN ValidateAfterAdd(obj, c1)
     ELSE c1

\* Validate: self.ValidateBeforeAdd(problems) and self._schedule
ValidateBody(obj, c) ==
  LET c1 == ValidateBeforeAdd(obj, c)
  IN IF c1.ret /\ obj._schedule # "None"
     THEN ValidateAfterAdd(obj, c1)
     ELSE c1

Validate(obj, c) ==
  ValidateBody(obj, Enter(c, "Validate"))

\* ------------------------------------------------------------ input values
S1 == PyStr(<<"S", "1">>)
S2 == PyStr(<<"S", "2">>)
S9 == PyStr(<<"S", "9">>)
P1 == PyStr(<<"P", "1">>)

\* distances between the two stops of the registry, in metres
Distances == {200, 240, 241, 500, 1500, 2000, 2001, 3000, 5001, 10000, 10001}

StopsAt(d) == (S1 :> 0) @@ (S2 :> d)

FromStopIds == {PyNone, PyStr(<<>>), S1, S9}
ToStopIds == {PyNone, PyStr(<<" ">>), S2, S9}

PathwayModes ==
  {PyNone, PyStr(<<>>), PyStr(<<" ">>), PyStr(<<"0">>), PyStr(<<"2">>),
   PyStr(<<"8">>), PyStr(<<"x">>), PyInt(1), PyInt(8)}

TraversalTimes ==
  {PyNone, PyStr(<<>>), PyStr(<<" ">>), PyStr(<<"-", "5">>),
   PyStr(<<"a", "b", "c">>), PyStr(<<"0">>), PyStr(<<"1", "0", "0">>),
   PyStr(<<"1", "0", "7", "9", "9">>), PyStr(<<"1", "0", "8", "0", "0">>),
   PyStr(<<"8", "6", "3", "9", "9">>), PyStr(<<"8", "6", "4", "0", "0">>),
   PyInt(-5), PyInt(-1)}

\* the keys a field mapping may leave out
OptionalKeys == {"pathway_mode", "traversal_time"}

Absent == [t |-> "absent", i |-> 0, s |-> <<>>]

NoObject ==
  [_schedule |-> "None", pathway_id |-> PyNone, from_stop_id |-> PyNone,
   to_stop_id |-> PyNone, is_bidirectional |-> PyNone,
   pathway_mode |-> PyNone, traversal_time |-> PyNone]

NoCall == [op |-> "none", ret |-> TRUE, raised |-> FALSE, mark |-> 0,
           entered |-> <<>>, before |-> {}, schedule |-> "None"]

Init ==
  /\ stops \in {StopsAt(d) : d \in Distances}
  /\ pc = "start"
  /\ self = NoObject
  /\ raw = [shape |-> "none", pathway_mode |-> Absent, traversal_time |-> Absent]
  /\ problems = <<>>
  /\ indexed = {}
  /\ last = NoCall
  /\ calls = 0

\* Pathway(schedule, pathway_id, from_stop_id, to_stop_id, pathway_mode,
\*         is_bidirectional, traversal_time)
Construct ==
  /\ pc = "start"
  /\ \E schedule \in {"None", "schedule"}, f \in FromStopIds, t \in ToStopIds,
        m \in PathwayModes, tt \in TraversalTimes :
       /\ self' = Pathway__init__(schedule, P1, f, t, m, PyInt(1), tt, <<>>)
       /\ raw' = [shape |-> "fields", pathway_mode |-> m, traversal_time |-> tt]
  /\ pc' = "constructed"
  /\ UNCHANGED <<stops, problems, indexed, last, calls>>

\* Pathway(schedule, field_dict = {...})
ConstructFromFieldDict ==
  /\ pc = "start"
  /\ \E schedule \in {"None", "schedule"}, f \in FromStopIds, t \in ToStopIds,
        m \in PathwayModes, tt \in TraversalTimes, keys \in SUBSET OptionalKeys :
       LET full == [n \in FieldNames |->
                      CASE n = "pathway_id" -> P1
                        [] n = "from_stop_id" -> f
                        [] n = "to_stop_id" -> t
                        [] n = "pathway_mode" -> m
                        [] n = "traversal_time" -> tt
                        [] n = "is_bidirectional" -> PyInt(1)]
           field_dict == [n \in (FieldNames \ OptionalKeys) \cup keys |-> full[n]]
       IN /\ self' = Pathway__init__(schedule, PyNone, PyNone, PyNone, PyNone,
                                     PyNone, PyNone, field_dict)
          /\ raw' = [shape |-> "field_dict",
                     pathway_mode |-> IF "pathway_mode" \in keys THEN m ELSE Absent,
                     traversal_time |-> IF "traversal_time" \in keys THEN tt
                                        ELSE Absent]
  /\ pc' = "constructed"
  /\ UNCHANGED <<stops, problems, indexed, last, calls>>

\* pathway.AddToSchedule(schedule, problems)
AddToSchedule ==
  /\ pc = "constructed"
  /\ self._schedule = "None"
  /\ self' = AddPathwayObject(self)
  /\ UNCHANGED <<stops, pc, raw, problems, indexed, last, calls>>

\* the outcome of a validation call, recorded in the state
Called(op, c) ==
  /\ problems' = c.problems
  /\ indexed' = c.indexed
  /\ last' = [op |-> op, ret |-> c.ret, raised |-> c.raised,
              mark |-> Len(problems), entered |-> c.entered, before |-> indexed,
              schedule |-> self._schedule]
  /\ calls' = calls + 1
  /\ UNCHANGED <<stops, pc, self, raw>>

CallValidate ==
  /\ pc = "constructed"
  /\ calls < MaxCalls
  /\ Called("Validate", Validate(self, Ctx(problems, indexed)))

CallValidateBeforeAdd ==
  /\ pc = "constructed"
  /\ calls < MaxCalls
  /\ Called("ValidateBeforeAdd", ValidateBeforeAdd(self, Ctx(problems, indexed)))

\* ValidateAfterAdd called directly; on an unattached record self._schedule
\* is None and the first check raises AttributeError.
CallValidateAfterAdd ==
  /\ pc = "constructed"
  /\ calls < MaxCalls
  /\ IF self._schedule = "None"
     THEN Called("ValidateAfterAdd",
                 [Enter(Enter(Ctx(problems, indexed), "ValidateAfterAdd"),
                        "ValidateFromStopIdIsValid") EXCEPT !.raised = TRUE])
     ELSE Called("ValidateAfterAdd", ValidateAfterAdd(self, Ctx(problems, indexed)))

Next ==
  \/ Construct
  \/ ConstructFromFieldDict
  \/ AddToSchedule
  \/ CallValidate
  \/ CallValidateBeforeAdd
  \/ CallValidateAfterAdd

Spec == Init /\ [][Next]_vars

\* the reports of the most recent call
LastReports == SubSeq(problems, last.mark + 1, Len(problems))

\* ----------------------------------------------------- reading the outcome
Entered(name) == \E k \in 1..Len(last.entered) : last.entered[k] = name

\* position of the first entry of a method in the last call, 0 if none
FirstEntry(name) ==
  IF Entered(name)
  THEN CHOOSE k \in 1..Len(last.entered) :
         /\ last.entered[k] = name
         /\ \A j \in 1..(k - 1) : last.entered[j] # name
  ELSE 0

Times(name) == Cardinality({k \in 1..Len(last.entered) : last.entered[k] = name})

Matching(kind, field) ==
  {k \in 1..Len(LastReports) :
     LastReports[k].kind = kind /\ LastReports[k].field = field}

PostRegistrationReport(r) ==
  \/ r.kind = "InvalidValue" /\ r.field \in {"from_stop_id", "to_stop_id"}
  \/ r.kind \in {"PathwayDistanceTooBig", "PathwayWalkingSpeedTooFast"}

BothResolve ==
  self.from_stop_id \in DOMAIN stops /\ self.to_stop_id \in DOMAIN stops

\* the distance between the record's two stops, when both resolve
StopDistance == Abs(stops[self.from_stop_id] - stops[self.to_stop_id])

IntegerIn1to7(v) == v.t = "int" /\ v.i \in 1..7

\* the reports a check emits when it runs on its own
Alone(c) == c.problems

PreRegistrationPasses ==
  /\ ~IsEmpty(self.from_stop_id)
  /\ ~IsEmpty(self.to_stop_id)
  /\ IsEmpty(self.pathway_mode) \/ IntegerIn1to7(self.pathway_mode)
  /\ IsEmpty(self.traversal_time) \/ self.traversal_time.t = "int"

\* ------------------------------------------------------------------ claims

\* C1: Validate runs the post-registration validator if and only if
\* ValidateBeforeAdd returned success and the record is attached to a
\* registry; otherwise no stop lookup is attempted and no post-registration
\* problem is reported.
C1_PostRunsIffPassedAndAttached ==
  last.op = "Validate" =>
    LET passed == ValidateBeforeAdd(self, Ctx(<<>>, {})).ret
        ran == Entered("ValidateAfterAdd")
    IN /\ ran <=> (passed /\ last.schedule # "None")
       /\ ~ran =>
            /\ indexed = last.before
            /\ ~Entered("ValidateFromStopIdIsValid")
            /\ ~Entered("ValidateToStopIdIsValid")
            /\ ~Entered("ValidatePathwayDistance")
            /\ ~Entered("ValidatePathwayWalkingTime")
            /\ \A k \in 1..Len(LastReports) : ~PostRegistrationReport(LastReports[k])

\* Validate on an attached record with an unresolvable from_stop_id whose
\* pre-registration phase failed: the post-registration phase was skipped.
C1_Witness ==
  /\ last.op = "Validate"
  /\ last.schedule # "None"
  /\ self.from_stop_id = S9
  /\ IsEmpty(self.to_stop_id)
  /\ ~Entered("ValidateAfterAdd")

\* C2: ValidateBeforeAdd runs its four checks in the fixed order whatever
\* the earlier ones returned, and the reports of one call are the
\* concatenation of the reports each check emits on its own; a record with
\* empty stop ids, an out-of-range mode and a non-integer time yields all
\* four problems in one call.
C2_AllFourChecksInOrder ==
  last.op = "ValidateBeforeAdd" =>
    /\ last.entered = <<"ValidateBeforeAdd", "ValidateFromStopIdIsPresent",
                        "ValidateToStopIdIsPresent", "ValidatePathwayMode",
                        "ValidateMinimumPathwayTime">>
    /\ LastReports =
         Alone(ValidateFromStopIdIsPresent(self, Ctx(<<>>, {})))
         \o Alone(ValidateToStopIdIsPresent(self, Ctx(<<>>, {})))
         \o Alone(ValidatePathwayMode(self, Ctx(<<>>, {})))
         \o Alone(ValidateMinimumPathwayTime(self, Ctx(<<>>, {})))
    /\ ( /\ IsEmpty(self.from_stop_id)
         /\ IsEmpty(self.to_stop_id)
         /\ ~IsEmpty(self.pathway_mode) /\ ~IntegerIn1to7(self.pathway_mode)
         /\ ~IsEmpty(self.traversal_time) /\ self.traversal_time.t # "int" )
       => /\ Matching("MissingValue", "from_stop_id") # {}
          /\ Matching("MissingValue", "to_stop_id") # {}
          /\ Matching("InvalidValue", "pathway_mode") # {}
          /\ Matching("InvalidValue", "traversal_time") # {}

\* one call on a record wrong in all four ways reported all four problems
C2_Witness ==
  /\ last.op = "ValidateBeforeAdd"
  /\ IsEmpty(self.from_stop_id)
  /\ IsEmpty(self.to_stop_id)
  /\ self.pathway_mode = PyInt(8)
  /\ self.traversal_time = PyStr(<<"a", "b", "c">>)
  /\ Matching("MissingValue", "from_stop_id") # {}
  /\ Matching("InvalidValue", "traversal_time") # {}

\* C3: ValidateBeforeAdd fails exactly when from_stop_id is empty, to_stop_id
\* is empty, pathway_mode is non-empty and not an integer in 1..7, or
\* traversal_time is non-empty and not an integer; an integer traversal_time
\* that is negative or too large, or set with a mode other than 2, is
\* reported without making ValidateMinimumPathwayTime or ValidateBeforeAdd
\* fail.
C3_FailsExactlyOnBlockingProblems ==
  last.op = "ValidateBeforeAdd" =>
    /\ last.ret = FALSE <=>
         \/ IsEmpty(self.from_stop_id)
         \/ IsEmpty(self.to_stop_id)
         \/ ~IsEmpty(self.pathway_mode) /\ ~IntegerIn1to7(self.pathway_mode)
         \/ ~IsEmpty(self.traversal_time) /\ self.traversal_time.t # "int"
    /\ ValidateMinimumPathwayTime(self, Ctx(<<>>, {})).ret = FALSE <=>
         (~IsEmpty(self.traversal_time) /\ self.traversal_time.t # "int")
    /\ (self.traversal_time.t = "int" /\ self.traversal_time.i < 0) =>
         Matching("InvalidValue", "traversal_time") # {}
    /\ (~IsEmpty(self.traversal_time) /\ self.pathway_mode # PyInt(2)) =>
         Matching("MinimumPathwayTimeSetWithInvalidPathwayMode", "pathway_mode") # {}

\* traversal_time = -5 on an otherwise valid record: reported, and success
C3_Witness ==
  /\ last.op = "ValidateBeforeAdd"
  /\ self.traversal_time = PyInt(-5)
  /\ self.pathway_mode = PyInt(2)
  /\ Matching("InvalidValue", "traversal_time") # {}
  /\ last.ret = TRUE

ValidatedWithStops ==
  /\ last.op = "Validate"
  /\ last.schedule # "None"
  /\ PreRegistrationPasses
  /\ BothResolve
  /\ ~last.raised

DistanceReports(type) ==
  {k \in Matching("PathwayDistanceTooBig", "") : LastReports[k].type = type}

\* C5 as stated: stops 5001 m apart yield PathwayDistanceTooBig at error
\* severity, 3000 m apart at warning severity, 1500 m apart no distance
\* problem.
C5_Original ==
  ValidatedWithStops =>
    /\ StopDistance = 5001 =>
         DistanceReports("ERROR") # {} /\ DistanceReports("WARNING") = {}
    /\ StopDistance = 3000 =>
         DistanceReports("WARNING") # {} /\ DistanceReports("ERROR") = {}
    /\ StopDistance = 1500 => Matching("PathwayDistanceTooBig", "") = {}

\* C5 (amended): stops 5001 m apart yield PathwayDistanceTooBig at warning
\* severity, as do stops 3000 m apart; 1500 m apart yield no distance
\* problem.
C5_DistanceExamples ==
  ValidatedWithStops =>
    /\ StopDistance = 5001 =>
         DistanceReports("WARNING") # {} /\ DistanceReports("ERROR") = {}
    /\ StopDistance = 3000 =>
         DistanceReports("WARNING") # {} /\ DistanceReports("ERROR") = {}
    /\ StopDistance = 1500 => Matching("PathwayDistanceTooBig", "") = {}

\* stops 5001 m apart were validated and the distance reported as a warning
C5_Witness ==
  /\ ValidatedWithStops
  /\ StopDistance = 5001
  /\ DistanceReports("WARNING") # {}

\* C6: ValidatePathwayDistance reports at most one PathwayDistanceTooBig:
\* one error for d > 10000, one warning for 2000 < d <= 10000, none for
\* d <= 2000.
C6_DistanceThresholds ==
  (last.op \in {"Validate", "ValidateAfterAdd"}
     /\ Entered("ValidatePathwayDistance") /\ ~last.raised) =>
    LET d == StopDistance
    IN /\ Times("ValidatePathwayDistance") = 1
       /\ d > 10000 =>
            /\ Cardinality(Matching("PathwayDistanceTooBig", "")) = 1
            /\ Cardinality(DistanceReports("ERROR")) = 1
       /\ (2000 < d /\ d <= 10000) =>
            /\ Cardinality(Matching("PathwayDistanceTooBig", "")) = 1
            /\ Cardinality(DistanceReports("WARNING")) = 1
       /\ d <= 2000 => Matching("PathwayDistanceTooBig", "") = {}
       /\ \A k \in Matching("PathwayDistanceTooBig", "") :
            LastReports[k].distance = d

\* stops exactly 10000 m apart: one report, a warning
C6_Witness ==
  /\ last.op = "ValidateAfterAdd"
  /\ Entered("ValidatePathwayDistance")
  /\ BothResolve
  /\ StopDistance = 10000
  /\ Cardinality(DistanceReports("WARNING")) = 1

\* C7: with both stops resolved, PathwayWalkingSpeedTooFast is reported if
\* and only if traversal_time is non-empty, at least 0 and
\* traversal_time + 120 < distance / 2; so never for a distance of at most
\* 240 m, and never for a negative or empty traversal_time.
C7_WalkingSpeed ==
  (last.op \in {"Validate", "ValidateAfterAdd"}
     /\ Entered("ValidatePathwayWalkingTime")) =>
    LET d == StopDistance
        t == self.traversal_time
        found == Matching("PathwayWalkingSpeedTooFast", "")
    IN /\ found # {} <=>
            /\ ~IsEmpty(t)
            /\ t.t = "int"
            /\ t.i >= 0
            /\ 2 * (t.i + 120) < d
       /\ Cardinality(found) <= 1
       /\ d <= 240 => found = {}
       /\ (IsEmpty(t) \/ (t.t = "int" /\ t.i < 0)) => found = {}
       /\ \A k \in found : /\ LastReports[k].distance = d
                           /\ LastReports[k].value = t

\* stops 500 m apart with traversal_time 100: 220 < 250, reported
C7_Witness ==
  /\ ValidatedWithStops
  /\ StopDistance = 500
  /\ self.traversal_time = PyInt(100)
  /\ Matching("PathwayWalkingSpeedTooFast", "") # {}

\* a string made of decimal digits only
NumericString(v) ==
  v.t = "str" /\ v.s # <<>> /\ \A k \in 1..Len(v.s) : v.s[k] \in
    {"0", "1", "2", "3", "4", "5", "6", "7", "8", "9"}

Blank(v) == v = Absent \/ v = PyNone \/ (v.t = "str" /\ \A k \in 1..Len(v.s) : v.s[k] = " ")

IntegerReports ==
  {k \in Matching("InvalidValue", "traversal_time") :
     LastReports[k].reason = ReasonInteger}

\* C9 as stated: a numeric-string traversal_time is stored as its integer;
\* any non-numeric string, "-5", "" and whitespace included, is stored
\* unchanged, is later reported as not an integer with a failing return,
\* and Validate never reaches the post-registration phase.
C9_Original ==
  (pc = "constructed" /\ raw.traversal_time.t = "str") =>
    /\ NumericString(raw.traversal_time) =>
         self.traversal_time.t = "int"
    /\ ~NumericString(raw.traversal_time) =>
         /\ self.traversal_time = raw.traversal_time
         /\ last.op \in {"Validate", "ValidateBeforeAdd"} =>
              /\ IntegerReports # {}
              /\ ~Entered("ValidateAfterAdd")
         /\ last.op = "ValidateBeforeAdd" => last.ret = FALSE

\* C9 (amended): a numeric-string traversal_time is stored as its integer;
\* any other string is stored unchanged; if that string is not empty
\* (not "" and not whitespace only, e.g. "-5" or "abc"),
\* ValidateMinimumPathwayTime reports InvalidValue ("should contain an
\* integer value") and returns failure and Validate never reaches the
\* post-registration phase; if it is empty or whitespace only, no
\* traversal_time problem is reported and ValidateMinimumPathwayTime
\* returns success.
C9_TimeNormalization ==
  (pc = "constructed" /\ raw.traversal_time.t = "str") =>
    /\ raw.traversal_time = PyStr(<<"1", "0", "0">>) =>
         self.traversal_time = PyInt(100)
    /\ raw.traversal_time = PyStr(<<"1", "0", "8", "0", "0">>) =>
         self.traversal_time = PyInt(10800)
    /\ NumericString(raw.traversal_time) =>
         self.traversal_time.t = "int" /\ self.traversal_time.i >= 0
    /\ ~NumericString(raw.traversal_time) =>
         /\ self.traversal_time = raw.traversal_time
         /\ (~Blank(raw.traversal_time)
               /\ last.op \in {"Validate", "ValidateBeforeAdd"}) =>
              /\ Cardinality(IntegerReports) = 1
              /\ ~Entered("ValidateAfterAdd")
              /\ ValidateMinimumPathwayTime(self, Ctx(<<>>, {})).ret = FALSE
         /\ (~Blank(raw.traversal_time) /\ last.op = "ValidateBeforeAdd") =>
              last.ret = FALSE
         /\ (Blank(raw.traversal_time)
               /\ last.op \in {"Validate", "ValidateBeforeAdd"}) =>
              /\ Matching("InvalidValue", "traversal_time") = {}
              /\ ValidateMinimumPathwayTime(self, Ctx(<<>>, {})).ret = TRUE

\* traversal_time "-5" on an attached, otherwise valid record: kept as the
\* string, reported, and the post-registration phase not reached
C9_Witness ==
  /\ last.op = "Validate"
  /\ last.schedule # "None"
  /\ raw.traversal_time = PyStr(<<"-", "5">>)
  /\ self.traversal_time = PyStr(<<"-", "5">>)
  /\ self.from_stop_id = S1 /\ self.to_stop_id = S2
  /\ IntegerIn1to7(self.pathway_mode)
  /\ IntegerReports # {}
  /\ ~Entered("ValidateAfterAdd")

\* C10: ValidateAfterAdd always runs both resolvability checks, from_stop_id
\* first, each reporting InvalidValue when its id is no key of the stop
\* collection; the distance check and then the walking-speed check run only
\* when both ids resolve, so the stop collection is never subscripted with
\* an id it does not hold and no distance or walking-speed problem is
\* reported when an id is unresolvable.
C10_AfterAddOrder ==
  /\ indexed \subseteq DOMAIN stops
  /\ (last.op \in {"Validate", "ValidateAfterAdd"} /\ last.schedule # "None"
        /\ Entered("ValidateAfterAdd")) =>
       LET a == FirstEntry("ValidateAfterAdd")
           both == BothResolve
       IN /\ Len(last.entered) >= a + 2
          /\ last.entered[a + 1] = "ValidateFromStopIdIsValid"
          /\ last.entered[a + 2] = "ValidateToStopIdIsValid"
          /\ Cardinality(Matching("InvalidValue", "from_stop_id")) =
               (IF self.from_stop_id \in DOMAIN stops THEN 0 ELSE 1)
          /\ Cardinality(Matching("InvalidValue", "to_stop_id")) =
               (IF self.to_stop_id \in DOMAIN stops THEN 0 ELSE 1)
          /\ (Matching("InvalidValue", "from_stop_id") # {}
                /\ Matching("InvalidValue", "to_stop_id") # {}) =>
               \A i \in Matching("InvalidValue", "from_stop_id"),
                  j \in Matching("InvalidValue", "to_stop_id") : i < j
          /\ both =>
               /\ Len(last.entered) = a + 4
               /\ last.entered[a + 3] = "ValidatePathwayDistance"
               /\ last.entered[a + 4] = "ValidatePathwayWalkingTime"
          /\ ~both =>
               /\ Len(last.entered) = a + 2
               /\ indexed = last.before
               /\ Matching("PathwayDistanceTooBig", "") = {}
               /\ Matching("PathwayWalkingSpeedTooFast", "") = {}

\* two unresolvable ids: two reports in one call, no geometry check
C10_Witness ==
  /\ last.op = "Validate"
  /\ last.schedule # "None"
  /\ self.from_stop_id = S9 /\ self.to_stop_id = S9
  /\ Matching("InvalidValue", "from_stop_id") # {}
  /\ Matching("InvalidValue", "to_stop_id") # {}
  /\ ~Entered("ValidatePathwayDistance")

====
